---- MODULE Spec2Model ----
(***************************************************************************)
(* rootCauseAI editor extension: the command handlers (Fix, Explain, Undo, *)
(* ShowHistory, ShowStats), the startup health probe and the backend       *)
(* client, as a state machine.  An invocation of a handler is a process    *)
(* that is suspended at every await (a backend request or an interactive   *)
(* host prompt); one action is the code that runs between two awaits,      *)
(* with the reply of the backend or of the user drawn by \E.               *)
(*                                                                         *)
(* JavaScript values: an optional value is a sequence of length at most 1  *)
(* (<<>> is undefined, <<v>> is v); a string the code only tests for       *)
(* truthiness is "" or a non-empty text; a file path is a sequence of      *)
(* characters, so that endsWith is computed.                               *)
(*                                                                         *)
(* What can fail: every awaited backend request and host call may reject,  *)
(* a response body may be missing, and createWebviewPanel may throw.  An   *)
(* error is an Error object with a message.  The fire-and-forget message   *)
(* calls of Notifications (showInfo, showWarning, showError) do not fail,  *)
(* and withProgress hands the task's result or rejection through.  The     *)
(* log is a history variable: it records the calls the handler makes and   *)
(* the replies it gets, and the handler never reads it.                    *)
(***************************************************************************)
EXTENDS Integers, Sequences, FiniteSets, TLC

(* Longest fixes list the backend returns in the model. *)
MaxFixes == 2

(* Invocations that exist side by side; Spec runs them one at a time. *)
Procs == {"p1", "p2"}

Kinds == {"fix", "explain", "undo", "history", "stats", "startup"}

VARIABLES
    pc,        \* pc[p]: the await at which invocation p is suspended, or "idle" / "done"
    kind,      \* kind[p]: which handler invocation p runs
    outcome,   \* outcome[p]: state of the promise returned by the handler
    log,       \* log[p]: what invocation p did and what it was answered, in order
    fixes,     \* fixes[p]: the `fixes` parameter of showAndApplyFixes
    selected,  \* selected[p]: `selected.fix` of showAndApplyFixes, as an optional
    settings,  \* the 'rootcauseai' section of the user's settings, as Config read it
    workspaceFolder  \* vscode.workspace.workspaceFolders?.[0]?.uri.fsPath, as an optional

vars == <<pc, kind, outcome, log, fixes, selected, settings, workspaceFolder>>

----------------------------------------------------------------------------
(* JavaScript helpers *)

Undefined == <<>>

Some(v) == <<v>>

(* Truthiness of an optional string: undefined and "" are falsy. *)
Truthy(opt) == opt # Undefined /\ opt[1] # ""

(* `${x}` in a template literal: undefined prints as "undefined". *)
Str(opt) == IF opt = Undefined THEN "undefined" ELSE opt[1]

(* a || b for optional strings *)
OrElse(opt, dflt) == IF Truthy(opt) THEN opt[1] ELSE dflt

(* String.prototype.endsWith on character sequences *)
EndsWith(s, suffix) ==
    /\ Len(s) >= Len(suffix)
    /\ SubSeq(s, Len(s) - Len(suffix) + 1, Len(s)) = suffix

----------------------------------------------------------------------------
(* Events of the log.  arg is always a sequence. *)

Ev(e, a) == [ev |-> e, arg |-> a]

(* a request sent to the backend *)
Req(op, body) == Ev("req", <<op>> \o body)

(* the backend's or the host's reply, as the handler receives it *)
Reply(what, v) == Ev("reply", <<what, v>>)

(* a rejected promise or a thrown exception *)
Fail(what) == Ev("fail", <<what>>)

(* a host UI element asked for: input box, quick pick, diff, dialog, panel, editor *)
Ui(what, a) == Ev("ui", <<what>> \o a)

Prefix == "rootCauseAI: "

showInfo(msg) == Ev("note", <<"info", Prefix>> \o msg)

showWarning(msg) == Ev("note", <<"warning", Prefix>> \o msg)

showError(msg) == Ev("note", <<"error", Prefix>> \o msg)

(* Notifications.confirm: a modal information message with Yes / No *)
confirmDialog(msg) == Ui("confirm", <<Prefix, msg, "Yes", "No">>)

(* result !== 'No': a dismissed dialog counts as consent *)
confirmResult_notNo(answer) == answer # Some("No")

(* result === 'Yes' *)
confirmResult(answer) == answer = Some("Yes")

----------------------------------------------------------------------------
(* Data returned by the backend *)

Path_a_py == <<"a", ".", "p", "y">>
Path_b_tsx == <<"b", ".", "t", "s", "x">>
Path_c_txt == <<"c", ".", "t", "x", "t">>

(* FixSuggestion; confidence and line_number only feed labels and are left out *)
FixPool ==
    { [file_path |-> Path_a_py, original_snippet |-> "n = input()", new_snippet |-> "n = int(input())",
       explanation |-> "use int()"],
      [file_path |-> Path_b_tsx, original_snippet |-> "user.name", new_snippet |-> "user?.name",
       explanation |-> "add null check"],
      [file_path |-> Path_c_txt, original_snippet |-> "teh", new_snippet |-> "the",
       explanation |-> "fix typo"] }

RECURSIVE SeqsUpTo(_, _)
SeqsUpTo(S, n) ==
    IF n = 0 THEN {<<>>}
    ELSE LET shorter == SeqsUpTo(S, n - 1)
         IN  shorter \cup {Append(s, x) : s \in {t \in shorter : Len(t) = n - 1}, x \in S}

FixLists == SeqsUpTo(FixPool, MaxFixes)

OptTexts == {Undefined, Some(""), Some("text")}

(* AnalyzeResponse: status, root_cause_analysis?, fixes (possibly missing), error_message? *)
AnalyzeResponses ==
    [ status : {"success", "failed"},
      root_cause_analysis : OptTexts,
      fixes : {Undefined} \cup {Some(l) : l \in FixLists},
      error_message : OptTexts ]

(* ApplyFixResponse: success, message, fix_id? *)
ApplyFixResponses ==
    [ success : BOOLEAN,
      message : {"done"},
      fix_id : {Undefined, Some("abc123")} ]

ErrMsgs == {"Network Error"}

TypeErrorMsg == "Cannot read properties of undefined"

(* What an await resolves to: a value (an optional) or a rejection. *)
Resolved(v) == [ok |-> TRUE, val |-> v, err |-> ""]

Rejected(m) == [ok |-> FALSE, val |-> Undefined, err |-> m]

Rejections == {Rejected(m) : m \in ErrMsgs}

(* GET / : transport failure, HTTP error status, no body, body without   *)
(* status, or a body with a status text.                                 *)
HealthBodies == {Undefined} \cup {Some([status |-> s]) : s \in {Undefined, Some("running"), Some("stopped")}}

HealthReplies == Rejections \cup {Resolved(b) : b \in HealthBodies}

----------------------------------------------------------------------------
(* Config: each accessor is `this.config.get(key) || default` *)

DefaultMaxRetries == 2

(* truthiness of an optional number: undefined and 0 are falsy *)
TruthyNumber(opt) == opt # Undefined /\ opt[1] # 0

(* truthiness of an optional boolean: undefined and false are falsy *)
TruthyBoolean(opt) == opt # Undefined /\ opt[1]

getBackendUrl == OrElse(settings.backendUrl, "http://localhost:8000")

getProvider == OrElse(settings.provider, "gemini")

getMaxRetries == IF TruthyNumber(settings.maxRetries) THEN settings.maxRetries[1] ELSE DefaultMaxRetries

getAutoStartBackend == IF TruthyBoolean(settings.autoStartBackend) THEN settings.autoStartBackend[1] ELSE FALSE

(* no setting of the section is set *)
NothingSet ==
    [backendUrl |-> Undefined, provider |-> Undefined, maxRetries |-> Undefined, autoStartBackend |-> Undefined]

(* what the user may have configured *)
Settings ==
    [ backendUrl : {Undefined, Some(""), Some("http://10.0.0.5:9000")},
      provider : {Undefined, Some(""), Some("openai")},
      maxRetries : {Undefined, Some(0), Some(1), Some(5)},
      autoStartBackend : {Undefined, Some(FALSE), Some(TRUE)} ]

----------------------------------------------------------------------------
(* BackendClient *)

Timeout == 60000

(* constructor: new Config() and axios.create({baseURL, timeout, headers}) *)
createClient == Ev("new", <<"axios.create", getBackendUrl, Timeout>>)

(* What a function call gives back: a value, or an exception. *)
Returns(v) == [threw |-> FALSE, value |-> v]

Throws == [threw |-> TRUE, value |-> FALSE]

(* the try block of checkHealth: await get('/'); response.data.status === 'running' *)
checkHealthTry(r) ==
    IF ~r.ok THEN Throws
    ELSE IF r.val = Undefined THEN Throws
    ELSE Returns(r.val[1].status = Some("running"))

(* checkHealth without its try/catch *)
checkHealth_noCatch(r) == checkHealthTry(r)

checkHealth(r) ==
    IF checkHealthTry(r).threw THEN Returns(FALSE) ELSE checkHealthTry(r)

analyzeError(errorLog, projectRoot) == Req("POST /analyze", <<errorLog, projectRoot, getProvider, getMaxRetries>>)

(* vscode.workspace.workspaceFolders?.[0]?.uri.fsPath || '.' *)
projectRootArg == OrElse(workspaceFolder, ".")

WorkspaceFolders == {Undefined, Some("/home/dev/project")}

applyFix(fix, language) == Req("POST /apply-fix", <<fix, language, FALSE>>)

undoLastFix == Req("POST /undo", <<>>)

getHistory(count) == Req("GET /history", <<count>>)

getStats == Req("GET /stats", <<>>)

----------------------------------------------------------------------------
(* One run of handler code between two awaits: the events it produces and *)
(* how it ends: suspended at the await `next`, "return", or "throw" with  *)
(* the error message msg.  local is the value the code keeps in a local   *)
(* variable across the await.                                             *)

Seg(evs, next) == [evs |-> evs, next |-> next, msg |-> "", local |-> <<>>]

SegKeep(evs, next, local) == [evs |-> evs, next |-> next, msg |-> "", local |-> local]

SegThrow(evs, what, msg) == [evs |-> evs \o <<Fail(what)>>, next |-> "throw", msg |-> msg, local |-> <<>>]

(* A catch block: the events it adds and the state the promise ends in. *)
Caught(evs) == [evs |-> evs, out |-> "returned"]

Uncaught == [evs |-> <<>>, out |-> "rejected"]

----------------------------------------------------------------------------
(* FixErrorCommand *)

(* the '.jsx' test left out *)
detectLanguage_noJsx(filePath) ==
    IF EndsWith(filePath, <<".", "p", "y">>) THEN "python"
    ELSE IF EndsWith(filePath, <<".", "j", "s">>) THEN "javascript"
    ELSE IF EndsWith(filePath, <<".", "t", "s">>) \/ EndsWith(filePath, <<".", "t", "s", "x">>) THEN "typescript"
    ELSE "python"

detectLanguage(filePath) ==
    IF EndsWith(filePath, <<".", "p", "y">>) THEN "python"
    ELSE IF EndsWith(filePath, <<".", "j", "s">>) \/ EndsWith(filePath, <<".", "j", "s", "x">>) THEN "javascript"
    ELSE IF EndsWith(filePath, <<".", "t", "s">>) \/ EndsWith(filePath, <<".", "t", "s", "x">>) THEN "typescript"
    ELSE "python"

(* execute without its try/catch: the error escapes *)
FixCatch_rethrow(msg) == Uncaught

(* catch (error) of execute *)
FixCatch(msg) == Caught(<<showError(<<"Error: ", msg>>)>>)

(* catch (error) of applyFix *)
ApplyFixCatch(evs, msg) == Seg(evs \o <<showError(<<"Error applying fix: ", msg>>)>>, "return")

(* createWebviewPanel('rootCauseAnalysis', ...) and its html *)
showRootCause(analysis, panelOk) ==
    IF panelOk THEN Seg(<<Ui("panel", <<"rootCauseAnalysis", analysis>>)>>, "return")
    ELSE SegThrow(<<>>, "createWebviewPanel", "panel failed")

(* the `return` after the error notification left out *)
FixOnHealth_noReturn(h) ==
    IF h.threw THEN SegThrow(<<>>, "checkHealth", "health failed")
    ELSE Seg((IF ~h.value
              THEN <<showError(<<"Backend server is not running. Please start it with: python backend/server.py">>)>>
              ELSE <<>>) \o <<Ui("inputBox", <<"Paste the error log">>)>>, "fix_input")

(* isHealthy known: the error and return, or getErrorLog's input box *)
FixOnHealth(h) ==
    IF h.threw THEN SegThrow(<<>>, "checkHealth", "health failed")
    ELSE IF ~h.value
    THEN Seg(<<showError(<<"Backend server is not running. Please start it with: python backend/server.py">>)>>, "return")
    ELSE Seg(<<Ui("inputBox", <<"Paste the error log">>)>>, "fix_input")

(* errorLog === undefined instead of !errorLog: empty text goes on *)
FixOnInput_undefinedOnly(r) ==
    IF ~r.ok THEN [Seg(<<>>, "throw") EXCEPT !.msg = r.err]
    ELSE IF r.val = Undefined THEN Seg(<<showWarning(<<"No error log provided">>)>>, "return")
    ELSE Seg(<<Ui("progress", <<"Analyzing error...">>), analyzeError(r.val[1], projectRootArg)>>, "fix_analyze")

(* errorLog known: the warning and return, or the progress-wrapped analyze call *)
FixOnInput(r) ==
    IF ~r.ok THEN [Seg(<<>>, "throw") EXCEPT !.msg = r.err]
    ELSE IF ~Truthy(r.val) THEN Seg(<<showWarning(<<"No error log provided">>)>>, "return")
    ELSE Seg(<<Ui("progress", <<"Analyzing error...">>), analyzeError(r.val[1], projectRootArg)>>, "fix_analyze")

(* the status compared with the wrong literal *)
analysisFailed_wrongLiteral(result) == result.status = "error"

(* result.status === 'failed' *)
analysisFailed(result) == result.status = "failed"

(* !result.fixes || result.fixes.length === 0 *)
noFixes(result) == result.fixes = Undefined \/ Len(result.fixes[1]) = 0

(* root_cause_analysis !== undefined instead of the truthiness test *)
hasRootCause_defined(result) == result.root_cause_analysis # Undefined

(* if (result.root_cause_analysis) *)
hasRootCause(result) == Truthy(result.root_cause_analysis)

(* the three-way branch on the analysis result, up to the quick pick *)
FixOnAnalyze(r, panelOk) ==
    IF ~r.ok THEN [Seg(<<>>, "throw") EXCEPT !.msg = r.err]
    ELSE IF r.val = Undefined THEN SegThrow(<<>>, "TypeError", TypeErrorMsg)
    ELSE LET result == r.val[1] IN
         IF analysisFailed(result)
         THEN Seg(<<showError(<<OrElse(result.error_message, "Failed to analyze error")>>)>>, "return")
         ELSE IF noFixes(result)
         THEN LET warn == <<showWarning(<<"No fixes generated. The error might be too complex.">>)>> IN
              IF hasRootCause(result)
              THEN LET panel == showRootCause(result.root_cause_analysis[1], panelOk)
                   IN  [panel EXCEPT !.evs = warn \o @]
              ELSE Seg(warn, "return")
         ELSE SegKeep(<<Ui("quickPick", <<result.fixes[1]>>)>>, "fix_pick", result.fixes[1])

(* openTextDocument({content, language}) of showDiff *)
openUntitled(content, filePath) == Ui("openTextDocument", <<content, detectLanguage(filePath)>>)

(* selected known: return, or showDiff up to its first await *)
FixOnPick(r, fixList) ==
    IF ~r.ok THEN [Seg(<<>>, "throw") EXCEPT !.msg = r.err]
    ELSE IF r.val = Undefined THEN Seg(<<>>, "return")
    ELSE LET fix == fixList[r.val[1]]
         IN  SegKeep(<<openUntitled(fix.original_snippet, fix.file_path)>>, "fix_diff_original", <<fix>>)

(* showDiff: originalDoc opened, open fixedDoc *)
FixOnDiffOriginal(r, fix) ==
    IF ~r.ok THEN [Seg(<<>>, "throw") EXCEPT !.msg = r.err]
    ELSE Seg(<<openUntitled(fix.new_snippet, fix.file_path)>>, "fix_diff_fixed")

(* showDiff: fixedDoc opened, run the vscode.diff command on the two documents *)
FixOnDiffFixed(r, fix) ==
    IF ~r.ok THEN [Seg(<<>>, "throw") EXCEPT !.msg = r.err]
    ELSE Seg(<<Ui("diff", <<fix, "Original <-> Fixed">>)>>, "fix_diff")

(* diff shown: ask for confirmation *)
FixOnDiff(r) ==
    IF ~r.ok THEN [Seg(<<>>, "throw") EXCEPT !.msg = r.err]
    ELSE Seg(<<confirmDialog("Apply this fix to your code?")>>, "fix_confirm")

(* the `if (!shouldApply) return` left out *)
FixOnConfirm_noGate(r, fix) ==
    IF ~r.ok THEN [Seg(<<>>, "throw") EXCEPT !.msg = r.err]
    ELSE Seg(<<Ui("progress", <<"Applying fix...">>), applyFix(fix, detectLanguage(fix.file_path))>>, "fix_apply")

(* shouldApply known: return, or the progress-wrapped apply-fix call *)
FixOnConfirm(r, fix) ==
    IF ~r.ok THEN [Seg(<<>>, "throw") EXCEPT !.msg = r.err]
    ELSE IF ~confirmResult(r.val) THEN Seg(<<>>, "return")
    ELSE Seg(<<Ui("progress", <<"Applying fix...">>), applyFix(fix, detectLanguage(fix.file_path))>>, "fix_apply")

(* result.message printed where result.fix_id belongs *)
appliedMessage_usesMessage(result) == <<"Fix applied successfully! (ID: ", result.message, ")">>

(* `Fix applied successfully! (ID: ${result.fix_id})` *)
appliedMessage(result) == <<"Fix applied successfully! (ID: ", Str(result.fix_id), ")">>

(* apply-fix answered: success notification and open the file, or the failure *)
FixOnApply(r, fix) ==
    IF ~r.ok THEN ApplyFixCatch(<<>>, r.err)
    ELSE IF r.val = Undefined THEN ApplyFixCatch(<<Fail("TypeError")>>, TypeErrorMsg)
    ELSE LET result == r.val[1] IN
         IF result.success
         THEN Seg(<<showInfo(appliedMessage(result)),
                    Ui("openTextDocument", <<fix.file_path>>)>>, "fix_open")
         ELSE Seg(<<showError(<<"Failed to apply fix: ", result.message>>)>>, "return")

(* document opened: show it in the editor *)
FixOnOpen(r, fix) ==
    IF ~r.ok THEN ApplyFixCatch(<<>>, r.err)
    ELSE Seg(<<Ui("showTextDocument", <<fix.file_path>>)>>, "fix_show")

(* editor shown: applyFix, showAndApplyFixes and execute return *)
FixOnShow(r) ==
    IF ~r.ok THEN ApplyFixCatch(<<>>, r.err)
    ELSE Seg(<<>>, "return")

----------------------------------------------------------------------------
(* ExplainErrorCommand *)

Editors == {Undefined, Some([selection |-> ""]), Some([selection |-> "Traceback"])}

ExplainCatch(msg) == Caught(<<showError(<<"Error: ", msg>>)>>)

(* the sections of the explanation panel that depend on the response *)
explanationHtml(result) ==
    LET fixList == IF result.fixes = Undefined THEN <<>> ELSE result.fixes[1]
    IN  [ rootCause |-> OrElse(result.root_cause_analysis, "Analysis not available"),
          suggestedFixes |-> [i \in 1..Len(fixList) |-> fixList[i].explanation],
          noFixes |-> Len(fixList) = 0 ]

(* createWebviewPanel('errorExplanation', ...) then the html built from result *)
showExplanation(optResult, panelOk) ==
    IF ~panelOk THEN SegThrow(<<>>, "createWebviewPanel", "panel failed")
    ELSE IF optResult = Undefined
    THEN SegThrow(<<Ui("panel", <<"errorExplanation">>)>>, "TypeError", TypeErrorMsg)
    ELSE Seg(<<Ui("panel", <<"errorExplanation">>),
               Ui("html", <<"errorExplanation", explanationHtml(optResult[1])>>)>>, "return")

(* execute() up to the analyze call *)
ExplainOnInvoke(editor) ==
    IF editor = Undefined THEN Seg(<<showWarning(<<"No active editor">>)>>, "return")
    ELSE IF editor[1].selection = "" THEN Seg(<<showWarning(<<"Please select an error message">>)>>, "return")
    ELSE Seg(<<Ui("progress", <<"Analyzing error...">>), analyzeError(editor[1].selection, projectRootArg)>>, "explain_analyze")

ExplainOnAnalyze(r, panelOk) ==
    IF ~r.ok THEN [Seg(<<>>, "throw") EXCEPT !.msg = r.err]
    ELSE showExplanation(r.val, panelOk)

----------------------------------------------------------------------------
(* UndoFixCommand *)

UndoResponses == [success : BOOLEAN, message : {"undo message"}]

UndoCatch(msg) == Caught(<<showError(<<"Error: ", msg>>)>>)

UndoOnInvoke == Seg(<<confirmDialog("Undo the last fix?")>>, "undo_confirm")

UndoOnConfirm(r) ==
    IF ~r.ok THEN [Seg(<<>>, "throw") EXCEPT !.msg = r.err]
    ELSE IF ~confirmResult(r.val) THEN Seg(<<>>, "return")
    ELSE Seg(<<Ui("progress", <<"Undoing fix...">>), undoLastFix>>, "undo_request")

(* a rejected undo request is sent again *)
UndoOnResult_retry(r) ==
    IF ~r.ok THEN Seg(<<undoLastFix>>, "undo_retry")
    ELSE IF r.val = Undefined THEN SegThrow(<<>>, "TypeError", TypeErrorMsg)
    ELSE IF r.val[1].success THEN Seg(<<showInfo(<<r.val[1].message>>)>>, "return")
    ELSE Seg(<<showError(<<r.val[1].message>>)>>, "return")

UndoOnResult(r) ==
    IF ~r.ok THEN [Seg(<<>>, "throw") EXCEPT !.msg = r.err]
    ELSE IF r.val = Undefined THEN SegThrow(<<>>, "TypeError", TypeErrorMsg)
    ELSE IF r.val[1].success THEN Seg(<<showInfo(<<r.val[1].message>>)>>, "return")
    ELSE Seg(<<showError(<<r.val[1].message>>)>>, "return")

----------------------------------------------------------------------------
(* ShowHistoryCommand *)

HistoryItems == {[fix_id |-> "abc123", reverted |-> FALSE], [fix_id |-> "def456", reverted |-> TRUE]}

HistoryLists == SeqsUpTo(HistoryItems, MaxFixes)

HistoryCatch(msg) == Caught(<<showError(<<"Error: ", msg>>)>>)

HistoryOnInvoke == Seg(<<Ui("progress", <<"Loading history...">>), getHistory(20)>>, "history_request")

HistoryOnResult(r, panelOk) ==
    IF ~r.ok THEN [Seg(<<>>, "throw") EXCEPT !.msg = r.err]
    ELSE IF r.val = Undefined THEN SegThrow(<<>>, "TypeError", TypeErrorMsg)
    ELSE IF Len(r.val[1]) = 0 THEN Seg(<<showInfo(<<"No fix history available">>)>>, "return")
    ELSE IF ~panelOk THEN SegThrow(<<>>, "createWebviewPanel", "panel failed")
    ELSE Seg(<<Ui("panel", <<"fixHistory", r.val[1]>>)>>, "return")

----------------------------------------------------------------------------
(* ShowStatsCommand *)

StatsBodies == {[total_fixes |-> 2, active_fixes |-> 1, reverted_count |-> 1, files_modified |-> 1]}

StatsCatch(msg) == Caught(<<showError(<<"Error: ", msg>>)>>)

StatsOnInvoke == Seg(<<Ui("progress", <<"Loading stats...">>), getStats>>, "stats_request")

StatsOnResult(r, panelOk) ==
    IF ~r.ok THEN [Seg(<<>>, "throw") EXCEPT !.msg = r.err]
    ELSE IF ~panelOk THEN SegThrow(<<>>, "createWebviewPanel", "panel failed")
    ELSE IF r.val = Undefined
    THEN SegThrow(<<Ui("panel", <<"fixStats">>)>>, "TypeError", TypeErrorMsg)
    ELSE Seg(<<Ui("panel", <<"fixStats">>), Ui("html", <<"fixStats", r.val[1]>>)>>, "return")

----------------------------------------------------------------------------
(* Extension entry point: activate and checkBackendHealth *)

(* catch (error) { /* silently fail */ } *)
StartupCatch(msg) == Caught(<<>>)

(* activate: the client is created, checkBackendHealth() runs up to its   *)
(* first await, then the commands are registered and the welcome message *)
(* is shown.                                                             *)
StartupOnInvoke ==
    Seg(<<createClient, Req("GET /", <<>>), showInfo(<<"rootCauseAI is ready!">>)>>, "startup_health")

(* vscode.window.showWarningMessage(..., 'Start Backend', 'Dismiss') *)
startupOffer ==
    Ev("note", <<"warning", "rootCauseAI backend is not running. Start it now?", "Start Backend", "Dismiss">>)

showBackendInstructions(panelOk) ==
    IF panelOk THEN Seg(<<Ui("panel", <<"backendInstructions">>)>>, "return")
    ELSE SegThrow(<<>>, "createWebviewPanel", "panel failed")

StartupOnHealth(h) ==
    IF h.threw THEN SegThrow(<<>>, "checkHealth", "health failed")
    ELSE IF ~h.value THEN Seg(<<startupOffer>>, "startup_offer")
    ELSE Seg(<<>>, "return")

(* action !== 'Dismiss': closing the warning opens the panel too *)
StartupOnOffer_notDismiss(r, panelOk) ==
    IF ~r.ok THEN [Seg(<<>>, "throw") EXCEPT !.msg = r.err]
    ELSE IF r.val # Some("Dismiss") THEN showBackendInstructions(panelOk)
    ELSE Seg(<<>>, "return")

StartupOnOffer(r, panelOk) ==
    IF ~r.ok THEN [Seg(<<>>, "throw") EXCEPT !.msg = r.err]
    ELSE IF r.val = Some("Start Backend") THEN showBackendInstructions(panelOk)
    ELSE Seg(<<>>, "return")

----------------------------------------------------------------------------
(* The state machine *)

(* no handler has been invoked yet *)
Idle ==
    /\ pc = [p \in Procs |-> "idle"]
    /\ kind = [p \in Procs |-> "none"]
    /\ outcome = [p \in Procs |-> "none"]
    /\ log = [p \in Procs |-> <<>>]
    /\ fixes = [p \in Procs |-> <<>>]
    /\ selected = [p \in Procs |-> <<>>]

(* a fresh installation: nothing configured *)
Init == Idle /\ settings = NothingSet /\ workspaceFolder \in WorkspaceFolders

(* The host calls a handler: its code runs up to the first await.  caught *)
(* is what the handler's catch block does with the error seg throws.     *)
Start(p, k, seg, caught) ==
    /\ pc[p] \in {"idle", "done"}
    /\ kind' = [kind EXCEPT ![p] = k]
    /\ log' = [log EXCEPT ![p] = seg.evs \o (IF seg.next = "throw" THEN caught.evs ELSE <<>>)]
    /\ pc' = [pc EXCEPT ![p] = IF seg.next \in {"throw", "return"} THEN "done" ELSE seg.next]
    /\ outcome' = [outcome EXCEPT ![p] =
            IF seg.next = "throw" THEN caught.out
            ELSE IF seg.next = "return" THEN "returned" ELSE "pending"]
    /\ fixes' = [fixes EXCEPT ![p] = <<>>]
    /\ selected' = [selected EXCEPT ![p] = <<>>]
    /\ UNCHANGED <<settings, workspaceFolder>>

(* The await `what` of invocation p is answered by r and the code runs on. *)
Resume(p, what, r, seg, caught) ==
    /\ log' = [log EXCEPT ![p] =
            @ \o <<Reply(what, r)>> \o (IF r.ok THEN <<>> ELSE <<Fail(what)>>)
              \o seg.evs \o (IF seg.next = "throw" THEN caught.evs ELSE <<>>)]
    /\ pc' = [pc EXCEPT ![p] = IF seg.next \in {"throw", "return"} THEN "done" ELSE seg.next]
    /\ outcome' = [outcome EXCEPT ![p] =
            IF seg.next = "throw" THEN caught.out
            ELSE IF seg.next = "return" THEN "returned" ELSE "pending"]
    /\ UNCHANGED <<kind, settings, workspaceFolder>>

(* execute() up to `await this.client.checkHealth()` *)
FixInvoke(p) ==
    LET seg == Seg(<<Req("GET /", <<>>)>>, "fix_health")
    IN  Start(p, "fix", seg, FixCatch(seg.msg))

FixHealth(p) ==
    /\ pc[p] = "fix_health"
    /\ \E r \in HealthReplies :
         LET h == checkHealth(r)
             on == FixOnHealth(h)
             seg == [on EXCEPT !.evs = <<Ev("ret", <<"checkHealth", h>>)>> \o @]
         IN  Resume(p, "GET /", r, seg, FixCatch(seg.msg))
    /\ UNCHANGED <<fixes, selected>>

FixInput(p) ==
    /\ pc[p] = "fix_input"
    /\ \E r \in Rejections \cup {Resolved(v) : v \in {Undefined, Some(""), Some("Traceback")}} :
         LET seg == FixOnInput(r)
         IN  Resume(p, "inputBox", r, seg, FixCatch(seg.msg))
    /\ UNCHANGED <<fixes, selected>>

(* the analyze request is answered by one of `replies` *)
FixAnalyzeFrom(p, replies) ==
    /\ pc[p] = "fix_analyze"
    /\ \E r \in replies :
       \E panelOk \in BOOLEAN :
         LET seg == FixOnAnalyze(r, panelOk)
         IN  /\ Resume(p, "POST /analyze", r, seg, FixCatch(seg.msg))
             /\ fixes' = [fixes EXCEPT ![p] = seg.local]
    /\ UNCHANGED selected

AnalyzeReplies == Rejections \cup {Resolved(Undefined)} \cup {Resolved(Some(a)) : a \in AnalyzeResponses}

FixAnalyze(p) == FixAnalyzeFrom(p, AnalyzeReplies)

FixPick(p) ==
    /\ pc[p] = "fix_pick"
    /\ \E r \in Rejections \cup {Resolved(Undefined)} \cup {Resolved(Some(i)) : i \in 1..Len(fixes[p])} :
         LET seg == FixOnPick(r, fixes[p])
         IN  /\ Resume(p, "quickPick", r, seg, FixCatch(seg.msg))
             /\ selected' = [selected EXCEPT ![p] = seg.local]
    /\ UNCHANGED fixes

(* the selection kept in one field of the shared command object, which  *)
(* the invocation p1 wrote                                              *)
selectedFix_shared(p) == IF selected["p1"] # <<>> THEN selected["p1"][1] ELSE selected[p][1]

(* `selected.fix`, a local of this invocation's showAndApplyFixes *)
selectedFix(p) == selected[p][1]

FixDiffOriginal(p) ==
    /\ pc[p] = "fix_diff_original"
    /\ \E r \in Rejections \cup {Resolved(Undefined)} :
         LET seg == FixOnDiffOriginal(r, selectedFix(p))
         IN  Resume(p, "openTextDocument", r, seg, FixCatch(seg.msg))
    /\ UNCHANGED <<fixes, selected>>

FixDiffFixed(p) ==
    /\ pc[p] = "fix_diff_fixed"
    /\ \E r \in Rejections \cup {Resolved(Undefined)} :
         LET seg == FixOnDiffFixed(r, selectedFix(p))
         IN  Resume(p, "openTextDocument", r, seg, FixCatch(seg.msg))
    /\ UNCHANGED <<fixes, selected>>

FixDiff(p) ==
    /\ pc[p] = "fix_diff"
    /\ \E r \in Rejections \cup {Resolved(Undefined)} :
         LET seg == FixOnDiff(r)
         IN  Resume(p, "diff", r, seg, FixCatch(seg.msg))
    /\ UNCHANGED <<fixes, selected>>

FixConfirm(p) ==
    /\ pc[p] = "fix_confirm"
    /\ \E r \in Rejections \cup {Resolved(v) : v \in {Undefined, Some("Yes"), Some("No")}} :
         LET seg == FixOnConfirm(r, selectedFix(p))
         IN  Resume(p, "confirm", r, seg, FixCatch(seg.msg))
    /\ UNCHANGED <<fixes, selected>>

FixApply(p) ==
    /\ pc[p] = "fix_apply"
    /\ \E r \in Rejections \cup {Resolved(Undefined)} \cup {Resolved(Some(a)) : a \in ApplyFixResponses} :
         LET seg == FixOnApply(r, selectedFix(p))
         IN  Resume(p, "POST /apply-fix", r, seg, FixCatch(seg.msg))
    /\ UNCHANGED <<fixes, selected>>

FixOpen(p) ==
    /\ pc[p] = "fix_open"
    /\ \E r \in Rejections \cup {Resolved(Undefined)} :
         LET seg == FixOnOpen(r, selectedFix(p))
         IN  Resume(p, "openTextDocument", r, seg, FixCatch(seg.msg))
    /\ UNCHANGED <<fixes, selected>>

FixShow(p) ==
    /\ pc[p] = "fix_show"
    /\ \E r \in Rejections \cup {Resolved(Undefined)} :
         LET seg == FixOnShow(r)
         IN  Resume(p, "showTextDocument", r, seg, FixCatch(seg.msg))
    /\ UNCHANGED <<fixes, selected>>

ExplainInvoke(p) ==
    \E editor \in Editors :
        LET on == ExplainOnInvoke(editor)
            seg == [on EXCEPT !.evs = <<Ev("read", <<"activeTextEditor", editor>>)>> \o @]
        IN  Start(p, "explain", seg, ExplainCatch(seg.msg))

ExplainAnalyzeFrom(p, replies) ==
    /\ pc[p] = "explain_analyze"
    /\ \E r \in replies :
       \E panelOk \in BOOLEAN :
         LET seg == ExplainOnAnalyze(r, panelOk)
         IN  Resume(p, "POST /analyze", r, seg, ExplainCatch(seg.msg))
    /\ UNCHANGED <<fixes, selected>>

ExplainAnalyze(p) == ExplainAnalyzeFrom(p, AnalyzeReplies)

UndoInvoke(p) ==
    Start(p, "undo", UndoOnInvoke, UndoCatch(UndoOnInvoke.msg))

UndoConfirm(p) ==
    /\ pc[p] = "undo_confirm"
    /\ \E r \in Rejections \cup {Resolved(v) : v \in {Undefined, Some("Yes"), Some("No")}} :
         LET seg == UndoOnConfirm(r)
         IN  Resume(p, "confirm", r, seg, UndoCatch(seg.msg))
    /\ UNCHANGED <<fixes, selected>>

UndoResult(p) ==
    /\ pc[p] = "undo_request"
    /\ \E r \in Rejections \cup {Resolved(Undefined)} \cup {Resolved(Some(a)) : a \in UndoResponses} :
         LET seg == UndoOnResult(r)
         IN  Resume(p, "POST /undo", r, seg, UndoCatch(seg.msg))
    /\ UNCHANGED <<fixes, selected>>

HistoryInvoke(p) ==
    Start(p, "history", HistoryOnInvoke, HistoryCatch(HistoryOnInvoke.msg))

HistoryResult(p) ==
    /\ pc[p] = "history_request"
    /\ \E r \in Rejections \cup {Resolved(Undefined)} \cup {Resolved(Some(l)) : l \in HistoryLists} :
       \E panelOk \in BOOLEAN :
         LET seg == HistoryOnResult(r, panelOk)
         IN  Resume(p, "GET /history", r, seg, HistoryCatch(seg.msg))
    /\ UNCHANGED <<fixes, selected>>

StatsInvoke(p) ==
    Start(p, "stats", StatsOnInvoke, StatsCatch(StatsOnInvoke.msg))

StatsResult(p) ==
    /\ pc[p] = "stats_request"
    /\ \E r \in Rejections \cup {Resolved(Undefined)} \cup {Resolved(Some(b)) : b \in StatsBodies} :
       \E panelOk \in BOOLEAN :
         LET seg == StatsOnResult(r, panelOk)
         IN  Resume(p, "GET /stats", r, seg, StatsCatch(seg.msg))
    /\ UNCHANGED <<fixes, selected>>

StartupInvoke(p) ==
    Start(p, "startup", StartupOnInvoke, StartupCatch(StartupOnInvoke.msg))

StartupHealth(p) ==
    /\ pc[p] = "startup_health"
    /\ \E r \in HealthReplies :
         LET h == checkHealth(r)
             on == StartupOnHealth(h)
             seg == [on EXCEPT !.evs = <<Ev("ret", <<"checkHealth", h>>)>> \o @]
         IN  Resume(p, "GET /", r, seg, StartupCatch(seg.msg))
    /\ UNCHANGED <<fixes, selected>>

StartupOffer(p) ==
    /\ pc[p] = "startup_offer"
    /\ \E r \in Rejections \cup {Resolved(v) : v \in {Undefined, Some("Start Backend"), Some("Dismiss")}} :
       \E panelOk \in BOOLEAN :
         LET seg == StartupOnOffer(r, panelOk)
         IN  Resume(p, "warningOffer", r, seg, StartupCatch(seg.msg))
    /\ UNCHANGED <<fixes, selected>>

Step(p) ==
    \/ FixInvoke(p)
    \/ FixHealth(p)
    \/ FixInput(p)
    \/ FixAnalyze(p)
    \/ FixPick(p)
    \/ FixDiffOriginal(p)
    \/ FixDiffFixed(p)
    \/ FixDiff(p)
    \/ FixConfirm(p)
    \/ FixApply(p)
    \/ FixOpen(p)
    \/ FixShow(p)
    \/ ExplainInvoke(p)
    \/ ExplainAnalyze(p)
    \/ UndoInvoke(p)
    \/ UndoConfirm(p)
    \/ UndoResult(p)
    \/ HistoryInvoke(p)
    \/ HistoryResult(p)
    \/ StatsInvoke(p)
    \/ StatsResult(p)
    \/ StartupInvoke(p)
    \/ StartupHealth(p)
    \/ StartupOffer(p)

(* One invocation at a time: the next command starts after the last ended. *)
Next == Step("p1")

Spec == Init /\ [][Next]_vars

----------------------------------------------------------------------------
(* The Fix command over a wide range of file paths: the backend answers   *)
(* the analysis with one fix whose file_path is any of LangPaths.         *)

Stems == { <<>>, <<"a">>, <<"a", ".", "p", "y">>, <<"d", ".", "t", "s", "/", "m">> }

Suffixes ==
    { <<>>, <<".">>, <<"p", "y">>, <<".", "p", "y">>, <<".", "p", "y", "c">>, <<".", "P", "Y">>,
      <<".", "j", "s">>, <<".", "j", "s", "x">>, <<".", "j", "s", "o", "n">>, <<"j", "s">>,
      <<".", "t", "s">>, <<".", "t", "s", "x">>, <<".", "t", "s", ".">>, <<".", "t", "x", "t">> }

LangPaths == {stem \o suffix : stem \in Stems, suffix \in Suffixes}

LangFixes ==
    { [file_path |-> path, original_snippet |-> "old", new_snippet |-> "new", explanation |-> "why"] :
        path \in LangPaths }

LangReplies ==
    { Resolved(Some([status |-> "success", root_cause_analysis |-> Undefined,
                     fixes |-> Some(<<fix>>), error_message |-> Undefined])) : fix \in LangFixes }

FixAnalyzeLang(p) == FixAnalyzeFrom(p, LangReplies)

StepLang(p) ==
    \/ FixInvoke(p)
    \/ FixHealth(p)
    \/ FixInput(p)
    \/ FixAnalyzeLang(p)
    \/ FixPick(p)
    \/ FixDiffOriginal(p)
    \/ FixDiffFixed(p)
    \/ FixDiff(p)
    \/ FixConfirm(p)
    \/ FixApply(p)
    \/ FixOpen(p)
    \/ FixShow(p)

NextLang == StepLang("p1")

SpecLang == Init /\ [][NextLang]_vars

----------------------------------------------------------------------------
(* Two invocations at once: every await is a point where the other one    *)
(* may run.  The backend answers an analysis with one of two fix lists.   *)

ConcFixLists ==
    { <<[file_path |-> Path_a_py, original_snippet |-> "n = input()", new_snippet |-> "n = int(input())",
         explanation |-> "use int()"],
        [file_path |-> Path_b_tsx, original_snippet |-> "user.name", new_snippet |-> "user?.name",
         explanation |-> "add null check"]>>,
      <<[file_path |-> Path_c_txt, original_snippet |-> "teh", new_snippet |-> "the",
         explanation |-> "fix typo"]>> }

ConcReplies ==
    Rejections \cup
    { Resolved(Some([status |-> "success", root_cause_analysis |-> Some("text"),
                     fixes |-> Some(l), error_message |-> Undefined])) : l \in ConcFixLists }

FixAnalyzeConc(p) == FixAnalyzeFrom(p, ConcReplies)

StepConc(p) ==
    \/ FixInvoke(p)
    \/ FixHealth(p)
    \/ FixInput(p)
    \/ FixAnalyzeConc(p)
    \/ FixPick(p)
    \/ FixDiffOriginal(p)
    \/ FixDiffFixed(p)
    \/ FixDiff(p)
    \/ FixConfirm(p)
    \/ FixApply(p)
    \/ FixOpen(p)
    \/ FixShow(p)
    \/ UndoInvoke(p)
    \/ UndoConfirm(p)
    \/ UndoResult(p)

NextConc == \E p \in Procs : StepConc(p)

SpecConc == Init /\ [][NextConc]_vars

----------------------------------------------------------------------------
(* The same extension under every configuration of Settings.  The backend *)
(* answers an analysis with a failure or with no fixes, so that Fix and   *)
(* Explain both end at the analyze request.                               *)

NoFixReplies ==
    Rejections \cup {Resolved(Undefined)}
        \cup {Resolved(Some(a)) : a \in {b \in AnalyzeResponses : b.fixes = Undefined}}

InitConfig == Idle /\ settings \in Settings /\ workspaceFolder \in WorkspaceFolders

FixAnalyzeNoFix(p) == FixAnalyzeFrom(p, NoFixReplies)

ExplainAnalyzeNoFix(p) == ExplainAnalyzeFrom(p, NoFixReplies)

StepConfig(p) ==
    \/ StartupInvoke(p)
    \/ StartupHealth(p)
    \/ StartupOffer(p)
    \/ FixInvoke(p)
    \/ FixHealth(p)
    \/ FixInput(p)
    \/ FixAnalyzeNoFix(p)
    \/ ExplainInvoke(p)
    \/ ExplainAnalyzeNoFix(p)

NextConfig == StepConfig("p1")

SpecConfig == InitConfig /\ [][NextConfig]_vars

----------------------------------------------------------------------------
(* Reading the log *)

IsReply(e, what) == e.ev = "reply" /\ e.arg[1] = what

IsReq(e, op) == e.ev = "req" /\ e.arg[1] = op

IsUi(e, what) == e.ev = "ui" /\ e.arg[1] = what

IsNote(e, level) == e.ev = "note" /\ e.arg[1] = level

(* the await `what` resolved with a body *)
GoodReply(e, what) == IsReply(e, what) /\ e.arg[2].ok /\ e.arg[2].val # Undefined

Body(e) == e.arg[2].val[1]

HasReq(l, op) == \E i \in 1..Len(l) : IsReq(l[i], op)

HasUi(l, what) == \E i \in 1..Len(l) : IsUi(l[i], what)

HasNote(l) == \E i \in 1..Len(l) : l[i].ev = "note"

(* createWebviewPanel was called for the panel `name` (it may have thrown) *)
PanelCalled(l, name) ==
    \E i \in 1..Len(l) :
        \/ IsUi(l[i], "panel") /\ l[i].arg[2] = name
        \/ l[i] = Fail("createWebviewPanel")

(* an analyze response with status "failed" *)
FailedAnalysis(e) == GoodReply(e, "POST /analyze") /\ Body(e).status = "failed"

(* an analyze response that did not fail and whose fixes list is empty *)
EmptyAnalysis(e) ==
    /\ GoodReply(e, "POST /analyze")
    /\ Body(e).status # "failed"
    /\ Body(e).fixes # Undefined
    /\ Len(Body(e).fixes[1]) = 0

----------------------------------------------------------------------------
(* C1: in the Fix command, an analyze response with status "failed" is   *)
(* answered by one error notification, carrying the response's           *)
(* error_message or the fallback text, and by nothing else: no quick     *)
(* pick, no diff preview, no apply-fix request, whatever fixes holds.    *)
C1_FailedShowsErrorOnly ==
    \A p \in Procs : kind[p] = "fix" =>
        \A i \in 1..Len(log[p]) : FailedAnalysis(log[p][i]) =>
            /\ Len(log[p]) = i + 1
            /\ IsNote(log[p][i + 1], "error")
            /\ \/ log[p][i + 1].arg[3] = "Failed to analyze error"
               \/ /\ Body(log[p][i]).error_message # Undefined
                  /\ log[p][i + 1].arg[3] = Body(log[p][i]).error_message[1]
            /\ pc[p] = "done"
            /\ ~HasUi(log[p], "quickPick")
            /\ ~HasUi(log[p], "diff")
            /\ ~HasReq(log[p], "POST /apply-fix")

C1_Witness ==
    \E p \in Procs :
        /\ kind[p] = "fix"
        /\ \E i \in 1..Len(log[p]) :
            /\ FailedAnalysis(log[p][i])
            /\ Body(log[p][i]).fixes # Undefined
            /\ Len(Body(log[p][i]).fixes[1]) > 0
            /\ Len(log[p]) > i
            /\ IsNote(log[p][i + 1], "error")

(* C2 as stated: in the Fix command, a response that did not fail and    *)
(* has an empty fixes list gives a warning, the root-cause panel exactly *)
(* when root_cause_analysis is present, no quick pick and no apply-fix.  *)
C2_PanelIffPresent ==
    \A p \in Procs : kind[p] = "fix" =>
        \A i \in 1..Len(log[p]) : EmptyAnalysis(log[p][i]) =>
            /\ Len(log[p]) > i
            /\ IsNote(log[p][i + 1], "warning")
            /\ PanelCalled(log[p], "rootCauseAnalysis") <=> Body(log[p][i]).root_cause_analysis # Undefined
            /\ ~HasUi(log[p], "quickPick")
            /\ ~HasReq(log[p], "POST /apply-fix")

(* C2 amended: as above, with the root-cause panel opened exactly when   *)
(* root_cause_analysis is present and not the empty string.              *)
C2_PanelIffNonEmpty ==
    \A p \in Procs : kind[p] = "fix" =>
        \A i \in 1..Len(log[p]) : EmptyAnalysis(log[p][i]) =>
            /\ Len(log[p]) > i
            /\ IsNote(log[p][i + 1], "warning")
            /\ PanelCalled(log[p], "rootCauseAnalysis") <=>
                    /\ Body(log[p][i]).root_cause_analysis # Undefined
                    /\ Body(log[p][i]).root_cause_analysis[1] # ""
            /\ ~HasUi(log[p], "quickPick")
            /\ ~HasReq(log[p], "POST /apply-fix")
            /\ pc[p] = "done"

C2_Witness ==
    \E p \in Procs :
        /\ kind[p] = "fix"
        /\ \E i \in 1..Len(log[p]) :
            /\ EmptyAnalysis(log[p][i])
            /\ Body(log[p][i]).root_cause_analysis = Some("text")
            /\ \E j \in 1..Len(log[p]) : IsUi(log[p][j], "panel") /\ log[p][j].arg[2] = "rootCauseAnalysis"

(* the reply to GET / that checkHealth turned into the value logged at i *)
HealthReplyAt(l, i) == IF l[i - 1].ev = "fail" THEN l[i - 2].arg[2] ELSE l[i - 1].arg[2]

(* C3: checkHealth never throws; it returns a boolean, and true exactly  *)
(* when GET / succeeded and the body's status field is "running".        *)
C3_CheckHealthTotal ==
    \A p \in Procs : \A i \in 1..Len(log[p]) :
        (log[p][i].ev = "ret" /\ log[p][i].arg[1] = "checkHealth") =>
            LET h == log[p][i].arg[2]
                r == HealthReplyAt(log[p], i)
            IN  /\ ~h.threw
                /\ h.value \in BOOLEAN
                /\ h.value <=> (/\ r.ok
                                /\ r.val # Undefined
                                /\ r.val[1].status # Undefined
                                /\ r.val[1].status[1] = "running")

C3_Witness ==
    \E p \in Procs : \E i \in 1..Len(log[p]) :
        /\ log[p][i].ev = "ret"
        /\ log[p][i].arg[1] = "checkHealth"
        /\ ~HealthReplyAt(log[p], i).ok
        /\ log[p][i].arg[2] = Returns(FALSE)

(* the user answered the dialog with something other than "Yes" *)
Declined(e) == IsReply(e, "confirm") /\ e.arg[2].ok /\ e.arg[2].val # Some("Yes")

Accepted(e) == IsReply(e, "confirm") /\ e.arg[2].ok /\ e.arg[2].val = Some("Yes")

(* C4: in the Undo command, an answer other than "Yes" (No, or the       *)
(* dialog dismissed) ends the command with no backend request and no     *)
(* notification; POST /undo is sent only after a "Yes".                  *)
C4_UndoNeedsYes ==
    \A p \in Procs : kind[p] = "undo" =>
        /\ \A i \in 1..Len(log[p]) : Declined(log[p][i]) =>
            /\ Len(log[p]) = i
            /\ pc[p] = "done"
            /\ \A j \in 1..Len(log[p]) : log[p][j].ev # "req"
            /\ ~HasNote(log[p])
        /\ \A j \in 1..Len(log[p]) : log[p][j].ev = "req" =>
            /\ IsReq(log[p][j], "POST /undo")
            /\ \E i \in 1..(j - 1) : Accepted(log[p][i])

C4_Witness ==
    \E p \in Procs :
        /\ kind[p] = "undo"
        /\ pc[p] = "done"
        /\ \E i \in 1..Len(log[p]) : IsReply(log[p][i], "confirm") /\ log[p][i].arg[2] = Resolved(Undefined)

(* the apply-fix request at j was preceded, in this order, by a non-empty *)
(* analysis, the quick pick of that list, the selection of the fix sent,  *)
(* the diff of that fix shown, and a "Yes" to the dialog                  *)
GatedApply(l, j) ==
    \E a \in 1..(j - 1) :
        /\ GoodReply(l[a], "POST /analyze")
        /\ Body(l[a]).fixes # Undefined
        /\ Len(Body(l[a]).fixes[1]) > 0
        /\ \E b \in (a + 1)..(j - 1) :
            /\ IsUi(l[b], "quickPick")
            /\ l[b].arg[2] = Body(l[a]).fixes[1]
            /\ \E c \in (b + 1)..(j - 1) :
                /\ GoodReply(l[c], "quickPick")
                /\ Body(l[c]) \in 1..Len(Body(l[a]).fixes[1])
                /\ Body(l[a]).fixes[1][Body(l[c])] = l[j].arg[2]
                /\ \E d \in (c + 1)..(j - 2) :
                    /\ IsUi(l[d], "diff")
                    /\ l[d].arg[2] = l[j].arg[2]
                    /\ IsReply(l[d + 1], "diff")
                    /\ l[d + 1].arg[2].ok
                    /\ \E e \in (d + 2)..(j - 1) : Accepted(l[e])

(* C5: in the Fix command an apply-fix request is sent only after the    *)
(* analysis returned fixes, the user picked one, its diff was shown and  *)
(* the user answered "Yes", in this order; a cancelled quick pick or an  *)
(* answer other than "Yes" sends no apply-fix request.                   *)
C5_ApplyOnlyAfterGate ==
    \A p \in Procs : kind[p] = "fix" =>
        /\ \A j \in 1..Len(log[p]) : IsReq(log[p][j], "POST /apply-fix") => GatedApply(log[p], j)
        /\ \A i \in 1..Len(log[p]) :
            (IsReply(log[p][i], "quickPick") /\ log[p][i].arg[2] = Resolved(Undefined)) =>
                ~HasReq(log[p], "POST /apply-fix")
        /\ \A i \in 1..Len(log[p]) : Declined(log[p][i]) => ~HasReq(log[p], "POST /apply-fix")

C5_Witness ==
    \E p \in Procs :
        /\ kind[p] = "fix"
        /\ \E j \in 1..Len(log[p]) : IsReq(log[p][j], "POST /apply-fix") /\ GatedApply(log[p], j)

(* an apply-fix response with success true and a fix_id *)
AppliedWithId(e) ==
    /\ GoodReply(e, "POST /apply-fix")
    /\ Body(e).success
    /\ Body(e).fix_id # Undefined

(* C6: in the Fix command, an apply-fix response with success true and   *)
(* fix_id F is followed by the notification "Fix applied successfully!   *)
(* (ID: F)" and then by the opening of the fix's file_path: the document *)
(* is asked for and, once the host has it, shown in the editor.          *)
C6_SuccessNotifiesThenOpens ==
    \A p \in Procs : kind[p] = "fix" =>
        \A i \in 1..Len(log[p]) : AppliedWithId(log[p][i]) =>
            LET path == log[p][i - 1].arg[2].file_path IN
            /\ IsReq(log[p][i - 1], "POST /apply-fix")
            /\ Len(log[p]) >= i + 2
            /\ IsNote(log[p][i + 1], "info")
            /\ log[p][i + 1].arg = <<"info", "rootCauseAI: ", "Fix applied successfully! (ID: ", Body(log[p][i]).fix_id[1], ")">>
            /\ IsUi(log[p][i + 2], "openTextDocument")
            /\ log[p][i + 2].arg[2] = path
            /\ \A k \in (i + 3)..Len(log[p]) :
                (IsReply(log[p][k], "openTextDocument") /\ log[p][k].arg[2].ok) =>
                    /\ Len(log[p]) > k
                    /\ IsUi(log[p][k + 1], "showTextDocument")
                    /\ log[p][k + 1].arg[2] = path

C6_Witness ==
    \E p \in Procs :
        /\ kind[p] = "fix"
        /\ pc[p] = "done"
        /\ \E i \in 1..Len(log[p]) : AppliedWithId(log[p][i]) /\ Body(log[p][i]).fix_id = Some("abc123")
        /\ HasUi(log[p], "showTextDocument")
        /\ IsReply(log[p][Len(log[p])], "showTextDocument")
        /\ log[p][Len(log[p])].arg[2].ok

(* checkHealth returned false *)
Unhealthy(e) == e.ev = "ret" /\ e.arg[1] = "checkHealth" /\ ~e.arg[2].threw /\ ~e.arg[2].value

(* C7: in the Fix command, a health check that returns false is followed *)
(* by an error notification and the return: no input box, no analyze     *)
(* request, no apply-fix request.                                        *)
C7_UnhealthyStopsFix ==
    \A p \in Procs : kind[p] = "fix" =>
        \A i \in 1..Len(log[p]) : Unhealthy(log[p][i]) =>
            /\ Len(log[p]) = i + 1
            /\ IsNote(log[p][i + 1], "error")
            /\ pc[p] = "done"
            /\ outcome[p] = "returned"
            /\ ~HasUi(log[p], "inputBox")
            /\ ~HasReq(log[p], "POST /analyze")
            /\ ~HasReq(log[p], "POST /apply-fix")

C7_Witness ==
    \E p \in Procs :
        /\ kind[p] = "fix"
        /\ pc[p] = "done"
        /\ \E i \in 1..Len(log[p]) : Unhealthy(log[p][i])

(* every failure in the log is followed by a notification *)
NotifiedAfterFailures(l) ==
    \A i \in 1..Len(l) : l[i].ev = "fail" => \E j \in (i + 1)..Len(l) : l[j].ev = "note"

(* C8 as stated: for every command and for the startup probe, a failure  *)
(* (rejected request, rejected host call, malformed response) ends with  *)
(* a notification and a normal return; no handler's promise is rejected. *)
C8_EveryFailureNotified ==
    \A p \in Procs :
        /\ outcome[p] # "rejected"
        /\ pc[p] = "done" => (outcome[p] = "returned" /\ NotifiedAfterFailures(log[p]))

(* C8 amended: the same for the five commands; the startup probe returns *)
(* normally too and answers a failed health check with its warning, but  *)
(* a rejected host call inside it is swallowed without a notification.   *)
C8_CommandsNotifyProbeReturns ==
    \A p \in Procs :
        /\ outcome[p] # "rejected"
        /\ pc[p] = "done" =>
            /\ outcome[p] = "returned"
            /\ kind[p] # "startup" => NotifiedAfterFailures(log[p])
            /\ kind[p] = "startup" =>
                \A i \in 1..Len(log[p]) : log[p][i] = Fail("GET /") =>
                    \E j \in (i + 1)..Len(log[p]) : IsNote(log[p][j], "warning")

C8_Witness ==
    \E p \in Procs :
        /\ kind[p] = "fix"
        /\ pc[p] = "done"
        /\ outcome[p] = "returned"
        /\ \E i \in 1..Len(log[p]) : log[p][i] = Fail("POST /analyze")
        /\ IsNote(log[p][Len(log[p])], "error")

(* the input box was cancelled or returned empty text *)
NoErrorLog(e) ==
    /\ IsReply(e, "inputBox")
    /\ e.arg[2].ok
    /\ (e.arg[2].val = Undefined \/ e.arg[2].val[1] = "")

(* there is no active editor, or its selection is empty *)
NoSelection(e) ==
    /\ e.ev = "read"
    /\ e.arg[1] = "activeTextEditor"
    /\ (e.arg[2] = Undefined \/ e.arg[2][1].selection = "")

(* a warning and the return, with no request except the health check and no panel *)
EndsWithWarningAt(p, i) ==
    /\ Len(log[p]) = i + 1
    /\ IsNote(log[p][i + 1], "warning")
    /\ pc[p] = "done"
    /\ outcome[p] = "returned"
    /\ \A j \in 1..Len(log[p]) : log[p][j].ev = "req" => IsReq(log[p][j], "GET /")
    /\ ~HasUi(log[p], "panel")

(* C9: when the Fix command's input box is cancelled or returns empty    *)
(* text, or the Explain command has no active editor or an empty         *)
(* selection, the command shows a warning and returns: no analyze        *)
(* request, no panel, no mutating request.                               *)
C9_MissingInputStops ==
    \A p \in Procs :
        /\ kind[p] = "fix" =>
            \A i \in 1..Len(log[p]) : NoErrorLog(log[p][i]) => EndsWithWarningAt(p, i)
        /\ kind[p] = "explain" =>
            \A i \in 1..Len(log[p]) : NoSelection(log[p][i]) => EndsWithWarningAt(p, i)

C9_Witness ==
    \E p \in Procs :
        /\ kind[p] = "fix"
        /\ pc[p] = "done"
        /\ \E i \in 1..Len(log[p]) :
            /\ IsReply(log[p][i], "inputBox")
            /\ log[p][i].arg[2] = Resolved(Some(""))
            /\ EndsWithWarningAt(p, i)

(* C10: after an analyze response with status "failed", neither command  *)
(* presents any of the response's fixes: no quick pick in Fix, no        *)
(* "Suggested Fixes" section in the Explain panel.                       *)
C10_FailedHidesFixes ==
    \A p \in Procs : \A i \in 1..Len(log[p]) : FailedAnalysis(log[p][i]) =>
        \A j \in (i + 1)..Len(log[p]) :
            /\ ~IsUi(log[p][j], "quickPick")
            /\ (IsUi(log[p][j], "html") /\ log[p][j].arg[2] = "errorExplanation") =>
                    Len(log[p][j].arg[3].suggestedFixes) = 0


(* checkHealth returned true *)
Healthy(e) == e.ev = "ret" /\ e.arg[1] = "checkHealth" /\ ~e.arg[2].threw /\ e.arg[2].value

(* the user chose "Start Backend" in the startup warning *)
ChoseStart(e) == IsReply(e, "warningOffer") /\ e.arg[2].ok /\ e.arg[2].val = Some("Start Backend")

(* C11: at activation, a health check that returns false is followed by  *)
(* the warning offering "Start Backend" and "Dismiss"; the instructions  *)
(* panel is opened exactly when the user chooses "Start Backend"; after  *)
(* a health check that returns true there is no warning and no panel.    *)
C11_StartupOfferGatesPanel ==
    \A p \in Procs : kind[p] = "startup" =>
        /\ \A i \in 1..Len(log[p]) : Unhealthy(log[p][i]) =>
            /\ Len(log[p]) > i
            /\ IsNote(log[p][i + 1], "warning")
            /\ log[p][i + 1].arg[3] = "Start Backend"
            /\ log[p][i + 1].arg[4] = "Dismiss"
        /\ \A i \in 1..Len(log[p]) : Healthy(log[p][i]) =>
            /\ Len(log[p]) = i
            /\ pc[p] = "done"
            /\ \A j \in 1..Len(log[p]) : ~IsNote(log[p][j], "warning")
            /\ ~PanelCalled(log[p], "backendInstructions")
        /\ pc[p] = "done" =>
            (PanelCalled(log[p], "backendInstructions") <=> \E j \in 1..Len(log[p]) : ChoseStart(log[p][j]))
        /\ pc[p] # "done" => ~PanelCalled(log[p], "backendInstructions")

C11_Witness ==
    \E p \in Procs :
        /\ kind[p] = "startup"
        /\ pc[p] = "done"
        /\ \E i \in 1..Len(log[p]) : Unhealthy(log[p][i])
        /\ \E j \in 1..Len(log[p]) : ChoseStart(log[p][j])
        /\ \E j \in 1..Len(log[p]) : IsUi(log[p][j], "panel") /\ log[p][j].arg[2] = "backendInstructions"


(* the position of the last "." of a path, 0 when it has none *)
LastDot(s) ==
    IF \E i \in 1..Len(s) : s[i] = "."
    THEN CHOOSE i \in 1..Len(s) : s[i] = "." /\ \A j \in (i + 1)..Len(s) : s[j] # "."
    ELSE 0

(* what follows the last "." *)
Extension(s) == IF LastDot(s) = 0 THEN Undefined ELSE Some(SubSeq(s, LastDot(s) + 1, Len(s)))

(* the language the path's extension stands for *)
ExpectedLanguage(s) ==
    IF Extension(s) \in {Some(<<"j", "s">>), Some(<<"j", "s", "x">>)} THEN "javascript"
    ELSE IF Extension(s) \in {Some(<<"t", "s">>), Some(<<"t", "s", "x">>)} THEN "typescript"
    ELSE "python"

(* an untitled document of the diff preview: content and language *)
IsPreviewDoc(e) == IsUi(e, "openTextDocument") /\ Len(e.arg) = 3

(* C12: detectLanguage maps paths ending in ".py" to "python", ".js" or  *)
(* ".jsx" to "javascript", ".ts" or ".tsx" to "typescript" and every     *)
(* other path to "python"; both documents of the diff preview and the    *)
(* apply-fix request of one invocation carry that same language of the   *)
(* selected fix's path.                                                  *)
C12_LanguageByExtension ==
    \A p \in Procs : kind[p] = "fix" =>
        /\ \A i \in 1..Len(log[p]) : IsPreviewDoc(log[p][i]) =>
            /\ selected[p] # <<>>
            /\ log[p][i].arg[3] = ExpectedLanguage(selected[p][1].file_path)
        /\ \A i \in 1..Len(log[p]) : IsReq(log[p][i], "POST /apply-fix") =>
            /\ log[p][i].arg[3] = ExpectedLanguage(log[p][i].arg[2].file_path)
            /\ \A j \in 1..Len(log[p]) : IsPreviewDoc(log[p][j]) => log[p][j].arg[3] = log[p][i].arg[3]

C12_Witness ==
    \E p \in Procs :
        /\ kind[p] = "fix"
        /\ selected[p] # <<>>
        /\ EndsWith(selected[p][1].file_path, <<".", "j", "s", "x">>)
        /\ Cardinality({i \in 1..Len(log[p]) : IsPreviewDoc(log[p][i]) /\ log[p][i].arg[3] = "javascript"}) = 2
        /\ \E i \in 1..Len(log[p]) : IsReq(log[p][i], "POST /apply-fix") /\ log[p][i].arg[3] = "javascript"


(* an error notification whose text starts with `head` *)
IsErrorNote(e, head) == IsNote(e, "error") /\ e.arg[3] = head

(* the apply-fix request was answered with a body whose success is b *)
ApplyAnswered(e, b) == GoodReply(e, "POST /apply-fix") /\ Body(e).success = b

(* the apply-fix request itself failed: rejected, or answered without a body *)
ApplyRequestFailed(e) == IsReply(e, "POST /apply-fix") /\ ~GoodReply(e, "POST /apply-fix")

(* C13: in the Fix command "Failed to apply fix: <message>" is shown      *)
(* exactly when the apply-fix response has success false, "Error         *)
(* applying fix: ..." only when the apply-fix request itself failed, and  *)
(* neither is shown after the backend reported success true.              *)
C13_ApplyFailureFromResponse ==
    \A p \in Procs : kind[p] = "fix" =>
        /\ \A i \in 1..Len(log[p]) : ApplyAnswered(log[p][i], FALSE) =>
            /\ Len(log[p]) > i
            /\ log[p][i + 1] = showError(<<"Failed to apply fix: ", Body(log[p][i]).message>>)
        /\ \A j \in 1..Len(log[p]) : IsErrorNote(log[p][j], "Failed to apply fix: ") =>
            /\ j > 1
            /\ ApplyAnswered(log[p][j - 1], FALSE)
        /\ \A j \in 1..Len(log[p]) : IsErrorNote(log[p][j], "Error applying fix: ") =>
            \E i \in 1..(j - 1) : ApplyRequestFailed(log[p][i])
        /\ \A i \in 1..Len(log[p]) : ApplyAnswered(log[p][i], TRUE) =>
            \A j \in (i + 1)..Len(log[p]) :
                /\ ~IsErrorNote(log[p][j], "Failed to apply fix: ")
                /\ ~IsErrorNote(log[p][j], "Error applying fix: ")


BackendOps == {"GET /", "POST /analyze", "POST /apply-fix", "POST /undo", "GET /history", "GET /stats"}

(* the backend request `op` was rejected: no answer, or an HTTP error status *)
RequestFailed(e, op) == IsReply(e, op) /\ ~e.arg[2].ok

(* each backend operation is requested at most once in the invocation *)
AtMostOnce(l) ==
    \A op \in BackendOps : Cardinality({i \in 1..Len(l) : IsReq(l[i], op)}) <= 1

NoRequestAfter(l, i) == \A j \in (i + 1)..Len(l) : l[j].ev # "req"

(* the invocation has ended and its last event is an error notification  *)
(* whose text ends with the message of the failure at i                  *)
EndsWithErrorOf(p, i) ==
    pc[p] = "done" =>
        LET last == log[p][Len(log[p])]
        IN  /\ IsNote(last, "error")
            /\ last.arg[Len(last.arg)] = log[p][i].arg[2].err

(* C14 as stated: each backend operation is requested at most once per   *)
(* invocation, and after any failed request, the health check included,  *)
(* no further request is sent and the invocation ends with an error      *)
(* notification carrying the underlying message.                         *)
C14_NoRetryErrorCarriesMessage ==
    \A p \in Procs :
        /\ AtMostOnce(log[p])
        /\ \A op \in BackendOps : \A i \in 1..Len(log[p]) : RequestFailed(log[p][i], op) =>
            /\ NoRequestAfter(log[p], i)
            /\ EndsWithErrorOf(p, i)

(* C14 amended: each backend operation is requested at most once per     *)
(* invocation and no request follows a failed one; after a failed        *)
(* analyze, apply-fix, undo, history or stats request the invocation     *)
(* ends with an error notification carrying the underlying message; a    *)
(* failed health check makes checkHealth return false, which Fix answers *)
(* with its fixed "Backend server is not running" error and the startup  *)
(* probe with its warning, neither carrying the underlying message.      *)
C14_NoRetryHealthReportedFixed ==
    \A p \in Procs :
        /\ AtMostOnce(log[p])
        /\ \A op \in BackendOps \ {"GET /"} : \A i \in 1..Len(log[p]) : RequestFailed(log[p][i], op) =>
            /\ NoRequestAfter(log[p], i)
            /\ EndsWithErrorOf(p, i)
        /\ \A i \in 1..Len(log[p]) : RequestFailed(log[p][i], "GET /") =>
            /\ NoRequestAfter(log[p], i)
            /\ Len(log[p]) >= i + 3
            /\ Unhealthy(log[p][i + 2])
            /\ kind[p] = "fix" =>
                /\ Len(log[p]) = i + 3
                /\ pc[p] = "done"
                /\ log[p][i + 3] = showError(<<"Backend server is not running. Please start it with: python backend/server.py">>)
            /\ kind[p] = "startup" =>
                /\ log[p][i + 3] = startupOffer
                /\ \A j \in (i + 4)..Len(log[p]) : log[p][j].ev # "note"

C14_Witness ==
    \E p \in Procs :
        /\ kind[p] = "fix"
        /\ pc[p] = "done"
        /\ \E i \in 1..Len(log[p]) : RequestFailed(log[p][i], "POST /apply-fix")
        /\ Cardinality({i \in 1..Len(log[p]) : log[p][i].ev = "req"}) = 3
        /\ log[p][Len(log[p])] = showError(<<"Error applying fix: ", "Network Error">>)


(* what `get(key)` holds when the key is set, the default otherwise *)
Configured(opt, dflt) == IF opt # Undefined THEN opt[1] ELSE dflt

(* C16: every value Config hands out is the configured setting whenever  *)
(* one is set and the default only when none is set: the baseURL of the  *)
(* client, and the provider and max_retries of every analyze request,    *)
(* max_retries 0 included.                                               *)
C16_ConfiguredValueSent ==
    /\ getAutoStartBackend = Configured(settings.autoStartBackend, FALSE)
    /\ \A p \in Procs : \A i \in 1..Len(log[p]) :
        /\ log[p][i].ev = "new" =>
                log[p][i].arg[2] = Configured(settings.backendUrl, "http://localhost:8000")
        /\ IsReq(log[p][i], "POST /analyze") =>
            /\ log[p][i].arg[4] = Configured(settings.provider, "gemini")
            /\ log[p][i].arg[5] = Configured(settings.maxRetries, 2)


(* the quick pick of invocation p was answered with a choice *)
Picked(e) == IsReply(e, "quickPick") /\ e.arg[2].ok /\ e.arg[2].val # Undefined

(* C15: under any interleaving of two invocations, the fix an invocation *)
(* sends in its apply-fix request is the one its own quick pick chose    *)
(* from the fixes list of its own analyze response, and what it shows    *)
(* after an analyze or apply-fix response is made of that response.      *)
C15_InvocationsIsolated ==
    \A p \in Procs : kind[p] = "fix" =>
        /\ \A i \in 1..Len(log[p]) : IsReq(log[p][i], "POST /apply-fix") =>
            \E a \in 1..i : \E k \in a..i :
                /\ GoodReply(log[p][a], "POST /analyze")
                /\ Picked(log[p][k])
                /\ Body(log[p][a]).fixes # Undefined
                /\ log[p][k].arg[2].val[1] \in 1..Len(Body(log[p][a]).fixes[1])
                /\ log[p][i].arg[2] = Body(log[p][a]).fixes[1][log[p][k].arg[2].val[1]]
        /\ \A i \in 1..Len(log[p]) : IsUi(log[p][i], "quickPick") =>
            /\ i > 1
            /\ GoodReply(log[p][i - 1], "POST /analyze")
            /\ log[p][i].arg[2] = Body(log[p][i - 1]).fixes[1]
        /\ \A i \in 1..Len(log[p]) : ApplyAnswered(log[p][i], TRUE) =>
            /\ Len(log[p]) > i
            /\ log[p][i + 1] = showInfo(<<"Fix applied successfully! (ID: ", Str(Body(log[p][i]).fix_id), ")">>)
        /\ \A i \in 1..Len(log[p]) : ApplyAnswered(log[p][i], FALSE) =>
            /\ Len(log[p]) > i
            /\ log[p][i + 1] = showError(<<"Failed to apply fix: ", Body(log[p][i]).message>>)

C15_Witness ==
    /\ pc["p1"] = "fix_apply"
    /\ pc["p2"] = "fix_apply"
    /\ selected["p1"] # selected["p2"]
    /\ Len(fixes["p1"]) # Len(fixes["p2"])
    /\ \E i \in 1..Len(log["p1"]) : IsReq(log["p1"][i], "POST /apply-fix") /\ log["p1"][i].arg[2] = selected["p1"][1]
    /\ \E i \in 1..Len(log["p2"]) : IsReq(log["p2"][i], "POST /apply-fix") /\ log["p2"][i].arg[2] = selected["p2"][1]

====
